---- MODULE Spec2Model ----
(***************************************************************************)
(* Model of the beatport client (package beatport: doRequest, LoadToken,   *)
(* SaveToken, FetchClientID, Login, Authorize, GetToken, GetGenres,        *)
(* GetTop100) as driven by cli.Run.  The remote service, the file system   *)
(* and the user are the environment: every answer they can give is drawn   *)
(* from a small set.                                                       *)
(***************************************************************************)
EXTENDS Integers, Sequences, FiniteSets, TLC

(***************************************************************************)
(* Program constants and bounds                                            *)
(***************************************************************************)
\* a loop bound that is off by one (i < MaxRetries)
MaxRetriesShort == 3 - 1

MaxRetries == 3

\* longest documentation page (in lines) the environment serves
MaxLines == 2
\* longest script body (in lines) the environment serves
MaxJsLines == 2

SeqsUpTo(S, n) == UNION {[1..k -> S] : k \in 0..n}

(***************************************************************************)
(* Values                                                                  *)
(***************************************************************************)
NilToken == [nil |-> TRUE]
NoErr == [kind |-> "nil"]
NoLoc == [present |-> FALSE]
NoBody == [kind |-> "none"]
NilResp == [nil |-> TRUE, status |-> 0, body |-> NoBody, loc |-> NoLoc, cookies |-> {},
            closed |-> TRUE]
NoRet == [resp |-> NilResp, err |-> NoErr, valid |-> FALSE]
NoReq == [ep |-> "none", arg |-> <<>>]

Statuses == {200, 302, 404, 503}

\* text of a malformed document (JSON that does not decode)
Malformed == [kind |-> "malformed"]
JsonObj(o) == [kind |-> "json", obj |-> o]

(***************************************************************************)
(* Token Store: the file token.json                                        *)
(***************************************************************************)
TokenFile == "token.json"
FileAbsent == [kind |-> "absent"]
FileUnreadable == [kind |-> "unreadable"]

\* json.NewEncoder(file).Encode(c.Token)
EncodeToken(t) == JsonObj([access_token |-> t.AccessToken])

\* json.NewDecoder(r).Decode(&token): a missing key leaves the zero value
DecodeToken(text) ==
    IF text.kind # "json" THEN [ok |-> FALSE, token |-> NilToken]
    ELSE [ok |-> TRUE,
          token |-> [AccessToken |-> IF "access_token" \in DOMAIN text.obj
                                     THEN text.obj.access_token ELSE ""]]

\* what token.json may hold when the program starts
InitialFiles ==
    {FileAbsent, FileUnreadable, Malformed, JsonObj([scope |-> "x"]),
     EncodeToken([AccessToken |-> "cached"])}

\* the errors of LoadToken: os.Open failing, or Decode failing on the file
LoadErr(k) == [kind |-> k, file |-> TokenFile]

\* a LoadToken that drops the error of Decode and keeps the zero token
LoadTokenLenient(file) ==
    IF file.kind = "absent" THEN [err |-> LoadErr("notexist"), token |-> NilToken]
    ELSE IF file.kind = "unreadable" THEN [err |-> LoadErr("permission"), token |-> NilToken]
    ELSE IF ~DecodeToken(file).ok THEN [err |-> NoErr, token |-> [AccessToken |-> ""]]
    ELSE [err |-> NoErr, token |-> DecodeToken(file).token]

\* LoadToken: the outcome of os.Open followed by Decode
LoadToken(file) ==
    IF file.kind = "absent" THEN [err |-> LoadErr("notexist"), token |-> NilToken]
    ELSE IF file.kind = "unreadable" THEN [err |-> LoadErr("permission"), token |-> NilToken]
    ELSE IF ~DecodeToken(file).ok THEN [err |-> LoadErr("decode"), token |-> NilToken]
    ELSE [err |-> NoErr, token |-> DecodeToken(file).token]

(***************************************************************************)
(* Text scanning (regexp.FindAllStringSubmatch).  A text is a sequence of  *)
(* lines; `.` does not match a newline and `.*` is greedy, so one line     *)
(* gives at most one match, running from the first occurrence of the       *)
(* prefix to the last occurrence of the suffix on that line.               *)
(***************************************************************************)
Assets == {"a", "b"}
\* a line of the documentation page: the script references it holds, in order
PageLines == {<<>>, <<"a">>, <<"b">>, <<"a", "b">>}
Pages == SeqsUpTo(PageLines, MaxLines)
Html(p) == [kind |-> "html", lines |-> p]

\* a line of a script: no assignment, or API_CLIENT_ID: '<value>'
NoAssign == [assign |-> FALSE, value |-> ""]
Assign(v) == [assign |-> TRUE, value |-> v]
JsLines == {NoAssign, Assign(""), Assign("id1")}
Scripts == SeqsUpTo(JsLines, MaxJsLines)
Js(b) == [kind |-> "js", lines |-> b]

\* reScript.FindAllStringSubmatch(body, -1): the captures, in document order.
\* A capture is the sequence of references it spans: <<"a">> is the path of
\* asset a, <<"a", "b">> the text from a's path to the end of b's path.
RECURSIVE FindAllScripts(_)
FindAllScripts(lines) ==
    IF lines = <<>> THEN <<>>
    ELSE LET l == Head(lines)
             here == IF Len(l) > 0 THEN <<l>> ELSE <<>>
         IN here \o FindAllScripts(Tail(lines))

\* reClientID.FindAllStringSubmatch(jsBody, -1): the captured values, in order
RECURSIVE FindAllClientIDs(_)
FindAllClientIDs(lines) ==
    IF lines = <<>> THEN <<>>
    ELSE LET l == Head(lines)
             here == IF l.assign THEN <<l.value>> ELSE <<>>
         IN here \o FindAllClientIDs(Tail(lines))

\* the script references found in a page body (a body that is not a page has none)
ScanPage(body) == IF body.kind = "html" THEN FindAllScripts(body.lines) ELSE <<>>
\* the client id assignments found in a script body
ScanScript(body) == IF body.kind = "js" THEN FindAllClientIDs(body.lines) ELSE <<>>

(***************************************************************************)
(* What the service can answer, per endpoint                               *)
(***************************************************************************)
Loc(parses, code) == [present |-> TRUE, parses |-> parses, code |-> code]
Locations == {NoLoc, Loc(FALSE, ""), Loc(TRUE, ""), Loc(TRUE, "c1")}

Genre(id, name) == [ID |-> id, Name |-> name]
GenreLists ==
    {<<>>, <<Genre(1, "Techno")>>, <<Genre(2, "House"), Genre(1, "Techno")>>,
     <<Genre(3, "TECHNO"), Genre(1, "Techno")>>}
GenreNames == {"techno", "Trance"}

\* the credentials Run holds (from config.json or from the prompts)
Username == "user"
Password == "pass"

Endpoints == {"login", "docs", "script", "authorize", "token", "genres", "top100", "search"}

Bodies(ep) ==
    CASE ep = "login" ->
           {Malformed, JsonObj([username |-> "u"]), JsonObj([detail |-> "bad"])}
      [] ep = "docs" -> {Malformed} \cup {Html(p) : p \in Pages}
      [] ep = "script" -> {Malformed} \cup {Js(b) : b \in Scripts}
      [] ep = "authorize" -> {[kind |-> "text"]}
      [] ep = "token" ->
           {Malformed, JsonObj([scope |-> "x"]), EncodeToken([AccessToken |-> "fresh"])}
      [] ep = "genres" ->
           {Malformed, JsonObj([count |-> 0])}
             \cup {JsonObj([results |-> g]) : g \in GenreLists}
      [] OTHER ->
           {Malformed, JsonObj([count |-> 0]), JsonObj([results |-> <<"t1">>]),
            JsonObj([tracks |-> <<"t2", "t1">>]),
            JsonObj([results |-> <<"t1">>, tracks |-> <<"t2", "t1">>])}

Headers(ep) == IF ep = "authorize" THEN Locations ELSE {NoLoc}

\* the Set-Cookie headers of a response: the login endpoint may hand out the
\* session cookie (valid for the whole host), the others set none
SetCookies(ep) == IF ep = "login" THEN {{}, {"sessionid"}} ELSE {{}}

Resp(s, b, l, ck) ==
    [nil |-> FALSE, status |-> s, body |-> b, loc |-> l, cookies |-> ck, closed |-> FALSE]
ResponsesOf ==
    [ep \in Endpoints |->
        {Resp(s, b, l, ck) : s \in Statuses, b \in Bodies(ep), l \in Headers(ep),
                             ck \in SetCookies(ep)}]
Responses(ep) == ResponsesOf[ep]

\* the error of a failed exchange (no response): attempt n of the request to ep
TransportErr(ep, n) == [kind |-> "transport", ep |-> ep, attempt |-> n]

(***************************************************************************)
(* State                                                                   *)
(***************************************************************************)
VARIABLES
    pc,            \* position of Run / of the operation it is in
    Token,         \* Client.Token
    ClientID,      \* Client.ClientID
    CheckRedirect, \* Client.HTTPClient.CheckRedirect: "default" (nil) or "nofollow"
    Jar,           \* Client.HTTPClient.Jar: the cookies it holds
    tokenFile,     \* content of token.json
    writes,        \* number of times token.json was created (truncated)
    requests,      \* the requests handed to doRequest so far, in order
    cur,           \* doRequest: req
    i,             \* doRequest: loop counter
    sleeps,        \* doRequest: the time.Sleep calls of this call, in seconds
    outs,          \* doRequest: status of each attempt of this call (0: no response)
    ret,           \* doRequest: the (resp, err) it returned
    got,           \* doRequest: the response of the attempt it returned at, as received
    sent,          \* doRequest: what each attempt of this call put on the wire
    bodies,        \* doRequest: the request body each attempt of this call transmitted
    cands,         \* FetchClientID: matches (kept until Authorize returns)
    ci,            \* FetchClientID: index of the match being fetched
    code,          \* Run: the authorization code
    genreName,     \* Run: the genre the user asked for
    genres,        \* Run: the genres returned by GetGenres
    selected,      \* Run: ID of selectedGenre (0: nil)
    tracks,        \* Run: the tracks returned by GetTop100
    failedOp,      \* the step of Run that failed ("" while none has)
    opErr          \* the error that step returned

reqVars == <<requests, cur, i, sleeps, outs, ret, got, sent, bodies>>
clientVars == <<Token, ClientID, CheckRedirect, Jar>>
fileVars == <<tokenFile, writes>>
fetchVars == <<cands, ci>>
runVars == <<code, genreName, genres, selected, tracks>>
errVars == <<failedOp, opErr>>
vars == <<pc, clientVars, fileVars, reqVars, fetchVars, runVars, errVars>>

ReqPcs == {"LoginReq", "DocsReq", "ScriptReq", "AuthorizeReq", "TokenReq",
           "GenresReq", "TopReq", "SearchReq"}
RetPcs == {"LoginRet", "DocsRet", "ScriptRet", "AuthorizeRet", "TokenRet",
           "GenresRet", "TopRet", "SearchRet"}
\* where doRequest returns to
RetPc(p) ==
    CASE p = "LoginReq" -> "LoginRet"
      [] p = "DocsReq" -> "DocsRet"
      [] p = "ScriptReq" -> "ScriptRet"
      [] p = "AuthorizeReq" -> "AuthorizeRet"
      [] p = "TokenReq" -> "TokenRet"
      [] p = "GenresReq" -> "GenresRet"
      [] p = "TopReq" -> "TopRet"
      [] OTHER -> "SearchRet"

Init ==
    /\ pc = "Login"
    /\ Token = NilToken
    /\ ClientID = ""
    /\ CheckRedirect = "default"
    /\ Jar = {}
    /\ tokenFile \in InitialFiles
    /\ writes = 0
    /\ requests = <<>>
    /\ cur = NoReq
    /\ i = 0
    /\ sleeps = <<>>
    /\ outs = <<>>
    /\ ret = NoRet
    /\ got = NilResp
    /\ sent = <<>>
    /\ bodies = <<>>
    /\ cands = <<>>
    /\ ci = 0
    /\ code = ""
    /\ genreName = ""
    /\ genres = <<>>
    /\ selected = 0
    /\ tracks = <<>>
    /\ failedOp = ""
    /\ opErr = NoErr

(***************************************************************************)
(* doRequest                                                               *)
(***************************************************************************)
\* the call c.doRequest(req), control moving to its loop
StartReq(req, p) ==
    /\ requests' = Append(requests, req)
    /\ cur' = req
    /\ i' = 0
    /\ sleeps' = <<>>
    /\ outs' = <<>>
    /\ ret' = NoRet
    /\ got' = NilResp
    /\ sent' = <<>>
    /\ bodies' = <<>>
    /\ pc' = p

\* the caller is done with the response: the locals of the call are gone
EndReq ==
    /\ cur' = NoReq
    /\ i' = 0
    /\ sleeps' = <<>>
    /\ outs' = <<>>
    /\ ret' = NoRet
    /\ got' = NilResp
    /\ sent' = <<>>
    /\ bodies' = <<>>
    /\ UNCHANGED requests

\* time.Duration(1<<uint(i)) * time.Second, in seconds
Backoff(n) == 2 ^ n

\* a loop that also retries client errors
AcceptBelow400(resp, err) == err = NoErr /\ resp.status < 400

\* err == nil && resp.StatusCode < 500
Accept(resp, err) == err = NoErr /\ resp.status < 500

\* if resp != nil { resp.Body.Close() }
CloseBody(resp) == IF resp.nil THEN resp ELSE [resp EXCEPT !.closed = TRUE]

\* c.HTTPClient.Do(req): a response, or no response and an error
DoOutcomes(req, n) ==
    {[resp |-> NilResp, err |-> TransportErr(req.ep, n)]}
        \cup {[resp |-> r, err |-> NoErr] : r \in Responses(req.ep)}

\* req.Body as the request was built: the JSON document of Login, the form of
\* GetToken, nil for the GET requests
ReqBody(req) ==
    CASE req.ep = "login" -> JsonObj(req.body)
      [] req.ep = "token" -> [kind |-> "form", code |-> req.arg[1], client_id |-> req.arg[2]]
      [] OTHER -> NoBody

\* what a reader yields that was read to its end
Drained == [kind |-> "empty"]

\* what attempt n of a call reads from req.Body: the first attempt reads it to
\* its end, and neither doRequest nor HTTPClient.Do puts the reader back
BodyLeft(body, n) == IF body = NoBody \/ n = 1 THEN body ELSE Drained

\* what c.HTTPClient.Do puts on the wire for req: the cookies of its jar
Wire(jar) == [cookies |-> jar]

\* the jar after c.HTTPClient.Do got resp: the cookies it sets are added
Store(jar, resp) == jar \cup resp.cookies

\* one iteration of the loop of doRequest
Attempt ==
    /\ pc \in ReqPcs
    /\ i <= MaxRetries
    /\ \E o \in DoOutcomes(cur, i + 1) :
         /\ sent' = Append(sent, Wire(Jar))
         /\ bodies' = Append(bodies, BodyLeft(ReqBody(cur), i + 1))
         /\ Jar' = Store(Jar, o.resp)
         /\ sleeps' = IF i > 0 THEN Append(sleeps, Backoff(i)) ELSE sleeps
         /\ outs' = Append(outs, IF o.err = NoErr THEN o.resp.status ELSE 0)
         /\ IF Accept(o.resp, o.err)
              THEN /\ ret' = [resp |-> o.resp, err |-> NoErr, valid |-> TRUE]
                   /\ got' = o.resp
                   /\ pc' = RetPc(pc)
                   /\ i' = i
              ELSE IF i + 1 <= MaxRetries
              THEN /\ i' = i + 1
                   /\ UNCHANGED <<ret, got, pc>>
              ELSE /\ i' = i + 1
                   /\ ret' = [resp |-> CloseBody(o.resp), err |-> o.err, valid |-> TRUE]
                   /\ got' = o.resp
                   /\ pc' = RetPc(pc)
    /\ UNCHANGED <<requests, cur, Token, ClientID, CheckRedirect, fileVars, fetchVars,
                   runVars, errVars>>

\* io.ReadAll(resp.Body): reading a closed body fails and yields nothing
ReadAll(resp) ==
    IF resp.closed THEN [err |-> [kind |-> "read"], body |-> NoBody]
    ELSE [err |-> NoErr, body |-> resp.body]

\* json.NewDecoder(resp.Body).Decode(&v)
DecodeJSON(resp) ==
    IF resp.closed THEN [err |-> [kind |-> "read"], obj |-> <<>>]
    ELSE IF resp.body.kind # "json" THEN [err |-> [kind |-> "decode"], obj |-> <<>>]
    ELSE [err |-> NoErr, obj |-> resp.body.obj]

\* a step that wraps the error it got in a new one
FatalWrapped(op, err) ==
    /\ pc' = "Fatal"
    /\ failedOp' = op
    /\ opErr' = [kind |-> "wrapped", cause |-> err]

\* a Run that logs the error of a step and starts over
FatalRestart(op, err) ==
    /\ pc' = "Login"
    /\ failedOp' = op
    /\ opErr' = err

\* log.Fatalf in Run after step op returned err
Fatal(op, err) ==
    /\ pc' = "Fatal"
    /\ failedOp' = op
    /\ opErr' = err

(***************************************************************************)
(* Login                                                                   *)
(***************************************************************************)
\* a client that never looks at the token it holds
HasTokenNever(t) == FALSE

\* c.Token != nil
HasToken(t) == t # NilToken

\* the login request: a POST whose JSON body holds the credentials
LoginReq(username, password) ==
    [ep |-> "login", arg |-> <<>>, body |-> [username |-> username, password |-> password]]

\* Login up to its request: the cached token is tried first
Login ==
    /\ pc = "Login"
    /\ LET l == LoadToken(tokenFile)
       IN IF l.err = NoErr
          THEN /\ Token' = l.token
               /\ pc' = "Authorize"
               /\ UNCHANGED <<reqVars>>
          ELSE /\ StartReq(LoginReq(Username, Password), "LoginReq")
               /\ UNCHANGED Token
    /\ UNCHANGED <<ClientID, CheckRedirect, Jar, fileVars, fetchVars, runVars, errVars>>

\* a Login that goes by the status of the response instead of its content
LoginRetByStatus ==
    /\ pc = "LoginRet"
    /\ IF ret.err # NoErr THEN Fatal("Login", ret.err) /\ UNCHANGED reqVars
       ELSE IF ret.resp.status # 200
       THEN Fatal("Login", [kind |-> "login failed", res |-> <<>>]) /\ UNCHANGED reqVars
       ELSE pc' = "Authorize" /\ EndReq /\ UNCHANGED errVars
    /\ UNCHANGED <<clientVars, fileVars, fetchVars, runVars>>

\* Login after its request
LoginRet ==
    /\ pc = "LoginRet"
    /\ LET d == DecodeJSON(ret.resp)
       IN IF ret.err # NoErr THEN Fatal("Login", ret.err) /\ UNCHANGED reqVars
          ELSE IF d.err # NoErr THEN Fatal("Login", d.err) /\ UNCHANGED reqVars
          ELSE IF "username" \notin DOMAIN d.obj
          THEN /\ Fatal("Login", [kind |-> "login failed", res |-> d.obj])
               /\ UNCHANGED reqVars
          ELSE /\ pc' = "Authorize"
               /\ EndReq
               /\ UNCHANGED errVars
    /\ UNCHANGED <<clientVars, fileVars, fetchVars, runVars>>

(***************************************************************************)
(* Authorize and FetchClientID                                             *)
(***************************************************************************)
\* an Authorize that builds a new http.Client to turn redirects off
StartAuthorizeNewClient(id) ==
    /\ CheckRedirect' = "nofollow"
    /\ Jar' = {}
    /\ StartReq([ep |-> "authorize", arg |-> id], "AuthorizeReq")

\* Authorize from `redirectURI := ...` to its request
StartAuthorize(id) ==
    /\ CheckRedirect' = "nofollow"
    /\ UNCHANGED Jar
    /\ StartReq([ep |-> "authorize", arg |-> id], "AuthorizeReq")

\* a loop that falls through to the authorization request when it runs out
NextCandidateFallsThrough(ms, k) ==
    /\ cands' = ms
    /\ ci' = k
    /\ UNCHANGED errVars
    /\ IF k > Len(ms)
       THEN StartReq([ep |-> "authorize", arg |-> ""], "AuthorizeReq")
       ELSE StartReq([ep |-> "script", arg |-> ms[k]], "ScriptReq")

\* FetchClientID: the loop over matches, from match k on
NextCandidate(ms, k) ==
    IF k > Len(ms)
    THEN /\ Fatal("Authorize", [kind |-> "could not fetch API_CLIENT_ID"])
         /\ cands' = <<>>
         /\ ci' = 0
         /\ UNCHANGED reqVars
    ELSE /\ cands' = ms
         /\ ci' = k
         /\ StartReq([ep |-> "script", arg |-> ms[k]], "ScriptReq")
         /\ UNCHANGED errVars

\* an Authorize that turns redirects off before it resolves the client id
AuthorizeEarlyNoFollow ==
    /\ pc = "Authorize"
    /\ IF HasToken(Token)
       THEN /\ code' = ""
            /\ pc' = "GetToken"
            /\ UNCHANGED <<reqVars, CheckRedirect, Jar>>
       ELSE IF ClientID = ""
       THEN /\ CheckRedirect' = "nofollow"
            /\ StartReq([ep |-> "docs", arg |-> <<>>], "DocsReq")
            /\ UNCHANGED <<code, Jar>>
       ELSE /\ StartAuthorize(ClientID)
            /\ UNCHANGED code
    /\ UNCHANGED <<Token, ClientID, fileVars, fetchVars, genreName, genres,
                   selected, tracks, errVars>>

\* Authorize up to its first request
Authorize ==
    /\ pc = "Authorize"
    /\ IF HasToken(Token)
       THEN /\ code' = ""
            /\ pc' = "GetToken"
            /\ UNCHANGED <<reqVars, CheckRedirect, Jar>>
       ELSE IF ClientID = ""
       THEN /\ StartReq([ep |-> "docs", arg |-> <<>>], "DocsReq")
            /\ UNCHANGED <<code, CheckRedirect, Jar>>
       ELSE /\ StartAuthorize(ClientID)
            /\ UNCHANGED code
    /\ UNCHANGED <<Token, ClientID, fileVars, fetchVars, genreName, genres,
                   selected, tracks, errVars>>

\* FetchClientID after the request for the documentation page
DocsRet ==
    /\ pc = "DocsRet"
    /\ LET b == ReadAll(ret.resp)
       IN IF ret.err # NoErr
          THEN Fatal("Authorize", ret.err) /\ UNCHANGED <<reqVars, fetchVars>>
          ELSE IF b.err # NoErr
          THEN Fatal("Authorize", b.err) /\ UNCHANGED <<reqVars, fetchVars>>
          ELSE NextCandidate(ScanPage(b.body), 1)
    /\ UNCHANGED <<clientVars, fileVars, runVars>>

\* taking the last match instead of the first
PickLastClientID(ids) == ids[Len(ids)]

\* clientMatches[0][1]
PickClientID(ids) == ids[1]

\* FetchClientID after the request for a script, and Authorize on its success
ScriptRet ==
    /\ pc = "ScriptRet"
    /\ LET b == ReadAll(ret.resp)
           ids == ScanScript(b.body)
       IN IF ret.err # NoErr \/ b.err # NoErr
          THEN NextCandidate(cands, ci + 1) /\ UNCHANGED <<ClientID, CheckRedirect, Jar>>
          ELSE IF Len(ids) > 0
          THEN /\ ClientID' = PickClientID(ids)
               /\ StartAuthorize(PickClientID(ids))
               /\ UNCHANGED <<fetchVars, errVars>>
          ELSE NextCandidate(cands, ci + 1) /\ UNCHANGED <<ClientID, CheckRedirect, Jar>>
    /\ UNCHANGED <<Token, fileVars, runVars>>

\* Authorize after its request
AuthorizeRet ==
    /\ pc = "AuthorizeRet"
    /\ CheckRedirect' = "default"
    /\ cands' = <<>>
    /\ ci' = 0
    /\ LET loc == ret.resp.loc
       IN IF ret.err # NoErr
          THEN Fatal("Authorize", ret.err) /\ UNCHANGED <<code, reqVars>>
          ELSE IF ~loc.present
          THEN /\ Fatal("Authorize", [kind |-> "no location header",
                                      body |-> ReadAll(ret.resp).body])
               /\ UNCHANGED <<code, reqVars>>
          ELSE IF ~loc.parses
          THEN Fatal("Authorize", [kind |-> "url parse"]) /\ UNCHANGED <<code, reqVars>>
          ELSE IF loc.code = ""
          THEN /\ Fatal("Authorize", [kind |-> "no code in location", location |-> loc])
               /\ UNCHANGED <<code, reqVars>>
          ELSE /\ code' = loc.code
               /\ pc' = "GetToken"
               /\ EndReq
               /\ UNCHANGED errVars
    /\ UNCHANGED <<Token, ClientID, Jar, fileVars, genreName, genres, selected, tracks>>

(***************************************************************************)
(* GetToken and SaveToken                                                  *)
(***************************************************************************)
\* a GetToken that hands the password to the token endpoint
GetTokenPasswordGrant ==
    /\ pc = "GetToken"
    /\ IF HasToken(Token)
       THEN /\ pc' = "GetGenres"
            /\ UNCHANGED reqVars
       ELSE StartReq([ep |-> "token", arg |-> <<Password, ClientID>>], "TokenReq")
    /\ UNCHANGED <<clientVars, fileVars, fetchVars, runVars, errVars>>

\* a GetToken that returns success without a token and without an exchange
GetTokenSkips ==
    /\ pc = "GetToken"
    /\ pc' = "GetGenres"
    /\ UNCHANGED <<reqVars, clientVars, fileVars, fetchVars, runVars, errVars>>

\* GetToken up to its request
GetToken ==
    /\ pc = "GetToken"
    /\ IF HasToken(Token)
       THEN /\ pc' = "GetGenres"
            /\ UNCHANGED reqVars
       ELSE StartReq([ep |-> "token", arg |-> <<code, ClientID>>], "TokenReq")
    /\ UNCHANGED <<clientVars, fileVars, fetchVars, runVars, errVars>>

\* what os.Create and Encode can do: both succeed, Create fails, or Create
\* truncates the file and the write fails
SaveOutcomes == {"saved", "nocreate", "nowrite"}

\* a SaveToken that reports success without touching the file
SaveTokenSkipsWrite(t, file, w) == [file |-> file, created |-> 0, err |-> NoErr]

\* SaveToken with token t under file system outcome w: the file and the error
SaveToken(t, file, w) ==
    IF t = NilToken THEN [file |-> file, created |-> 0, err |-> [kind |-> "no token to save"]]
    ELSE IF w = "nocreate" THEN [file |-> file, created |-> 0, err |-> [kind |-> "create"]]
    ELSE IF w = "nowrite" THEN [file |-> Malformed, created |-> 1, err |-> [kind |-> "write"]]
    ELSE [file |-> EncodeToken(t), created |-> 1, err |-> NoErr]

\* GetToken after its request
TokenRet ==
    /\ pc = "TokenRet"
    /\ LET d == DecodeToken(ret.resp.body)
       IN IF ret.err # NoErr
          THEN Fatal("GetToken", ret.err) /\ UNCHANGED <<Token, fileVars, reqVars>>
          ELSE IF ret.resp.status # 200
          THEN /\ Fatal("GetToken", [kind |-> "failed to get token",
                                     body |-> ReadAll(ret.resp).body])
               /\ UNCHANGED <<Token, fileVars, reqVars>>
          ELSE IF ret.resp.closed \/ ~d.ok
          THEN /\ Fatal("GetToken", [kind |-> "decode"])
               /\ UNCHANGED <<Token, fileVars, reqVars>>
          ELSE \E w \in SaveOutcomes :
                 LET sv == SaveToken(d.token, tokenFile, w)
                 IN /\ Token' = d.token
                    /\ tokenFile' = sv.file
                    /\ writes' = writes + sv.created
                    /\ IF sv.err # NoErr
                       THEN Fatal("GetToken", sv.err) /\ UNCHANGED reqVars
                       ELSE pc' = "GetGenres" /\ EndReq /\ UNCHANGED errVars
    /\ UNCHANGED <<ClientID, CheckRedirect, Jar, fetchVars, runVars>>

(***************************************************************************)
(* GetGenres, the genre selection of Run, GetTop100                        *)
(***************************************************************************)
\* Run from the genre prompt to the request of GetGenres
GetGenres ==
    /\ pc = "GetGenres"
    /\ Token # NilToken
    /\ \E n \in GenreNames : genreName' = n
    /\ StartReq([ep |-> "genres", arg |-> Token.AccessToken], "GenresReq")
    /\ UNCHANGED <<clientVars, fileVars, fetchVars, code, genres, selected, tracks,
                   errVars>>

\* the field of a decoded response holding a list (absent: the nil slice)
ListField(obj, key) == IF key \in DOMAIN obj THEN obj[key] ELSE <<>>

\* GetGenres after its request
GenresRet ==
    /\ pc = "GenresRet"
    /\ LET d == DecodeJSON(ret.resp)
       IN IF ret.err # NoErr
          THEN Fatal("GetGenres", ret.err) /\ UNCHANGED <<genres, reqVars>>
          ELSE IF ret.resp.status # 200
          THEN /\ Fatal("GetGenres", [kind |-> "failed to get genres",
                                      body |-> ReadAll(ret.resp).body])
               /\ UNCHANGED <<genres, reqVars>>
          ELSE IF d.err # NoErr
          THEN Fatal("GetGenres", d.err) /\ UNCHANGED <<genres, reqVars>>
          ELSE /\ genres' = ListField(d.obj, "results")
               /\ pc' = "Select"
               /\ EndReq
               /\ UNCHANGED errVars
    /\ UNCHANGED <<clientVars, fileVars, fetchVars, code, genreName,
                   selected, tracks>>

\* the simple case folding of the names in use
Fold(s) ==
    CASE s \in {"Techno", "TECHNO", "techno"} -> "techno"
      [] s \in {"House", "house"} -> "house"
      [] s \in {"Trance", "trance"} -> "trance"
      [] OTHER -> s

\* a comparison that minds the case
EqualExact(a, b) == a = b

\* strings.EqualFold
EqualFold(a, b) == Fold(a) = Fold(b)

\* index of the genre the loop of Run stops at (0: it runs to the end)
RECURSIVE FirstMatch(_, _, _)
FirstMatch(gs, name, k) ==
    IF k > Len(gs) THEN 0
    ELSE IF EqualFold(gs[k].Name, name) THEN k
    ELSE FirstMatch(gs, name, k + 1)

\* Run from the selection loop to the request of GetTop100
Select ==
    /\ pc = "Select"
    /\ LET k == FirstMatch(genres, genreName, 1)
       IN IF k = 0
          THEN /\ Fatal("Select", [kind |-> "genre not found"])
               /\ UNCHANGED <<selected, reqVars>>
          ELSE /\ selected' = genres[k].ID
               /\ StartReq([ep |-> "top100", arg |-> genres[k].ID], "TopReq")
               /\ UNCHANGED errVars
    /\ UNCHANGED <<clientVars, fileVars, fetchVars, code, genreName, genres, tracks>>

\* taking every status below 400 of the top 100 response for a success
PrimaryOKBelow400(resp) == resp.status < 400

\* resp.StatusCode == http.StatusOK, of the top 100 response
PrimaryOK(resp) == resp.status = 200

\* a fallback that does not look at the status
FallbackOKAlways(resp) == TRUE

\* resp.StatusCode != http.StatusOK negated, of the search response
FallbackOK(resp) == resp.status = 200

\* the search request GetTop100 falls back to
SearchReq(genreID) == [ep |-> "search", arg |-> [genre_id |-> genreID, type |-> "tracks"]]

\* GetTop100 after the request to the top 100 endpoint
TopRet ==
    /\ pc = "TopRet"
    /\ LET d == DecodeJSON(ret.resp)
       IN IF ret.err # NoErr
          THEN Fatal("GetTop100", ret.err) /\ UNCHANGED <<tracks, reqVars>>
          ELSE IF PrimaryOK(ret.resp)
          THEN IF d.err # NoErr
               THEN Fatal("GetTop100", d.err) /\ UNCHANGED <<tracks, reqVars>>
               ELSE /\ tracks' = ListField(d.obj, "results")
                    /\ pc' = "Done"
                    /\ UNCHANGED <<errVars, reqVars>>
          ELSE /\ StartReq(SearchReq(cur.arg), "SearchReq")
               /\ UNCHANGED <<tracks, errVars>>
    /\ UNCHANGED <<clientVars, fileVars, fetchVars, code, genreName, genres, selected>>

\* GetTop100 after the request to the search endpoint
SearchRet ==
    /\ pc = "SearchRet"
    /\ LET d == DecodeJSON(ret.resp)
       IN IF ret.err # NoErr
          THEN Fatal("GetTop100", ret.err) /\ UNCHANGED tracks
          ELSE IF ~FallbackOK(ret.resp)
          THEN /\ Fatal("GetTop100", [kind |-> "failed to get top 100 (fallback)",
                                      body |-> ReadAll(ret.resp).body])
               /\ UNCHANGED tracks
          ELSE IF d.err # NoErr
          THEN Fatal("GetTop100", d.err) /\ UNCHANGED tracks
          ELSE /\ tracks' = ListField(d.obj, "tracks")
               /\ pc' = "Done"
               /\ UNCHANGED errVars
    /\ UNCHANGED <<clientVars, fileVars, reqVars, fetchVars, code, genreName, genres,
                   selected>>

Next ==
    \/ Login
    \/ Attempt
    \/ LoginRet
    \/ Authorize
    \/ DocsRet
    \/ ScriptRet
    \/ AuthorizeRet
    \/ GetToken
    \/ TokenRet
    \/ GetGenres
    \/ GenresRet
    \/ Select
    \/ TopRet
    \/ SearchRet

Spec == Init /\ [][Next]_vars

(***************************************************************************)
(* Properties of doRequest                                                 *)
(***************************************************************************)
\* doRequest has returned and its caller has not yet looked at the result
Returned == pc \in RetPcs

\* attempt k of the current call got a response with a status below 500
Below500(k) == outs[k] > 0 /\ outs[k] < 500

\* C1: when every attempt of a call yields a status >= 500, exactly 4
\* attempts are made, the waits between them are 2s, 4s, 8s, and the caller
\* receives an error.
C1_ServerErrorsSurfaced ==
    (Returned /\ \A k \in 1..Len(outs) : outs[k] >= 500)
        => /\ Len(outs) = 4
           /\ sleeps = <<2, 4, 8>>
           /\ ret.err # NoErr

\* C2: when the first attempt of a call yields a 2xx or 4xx response (any
\* response below 500), the call makes exactly 1 attempt, waits never, and
\* returns that response as the service gave it, its body still open.
C2_NoRetryBelow500 ==
    (Returned /\ Below500(1))
        => /\ Len(outs) = 1
           /\ sleeps = <<>>
           /\ ret.err = NoErr
           /\ ret.resp = got
           /\ ret.resp.status = outs[1]
           /\ ~ret.resp.nil
           /\ ~ret.resp.closed

C2_Witness == pc = "TopRet" /\ outs = <<404>> /\ ret.resp.status = 404

\* C3: a call stops at the first attempt k <= 4 that yields a status below
\* 500 and returns that response after exactly k attempts; without such an
\* attempt it stops after exactly 4 attempts, and a 4th attempt without a
\* response returns that attempt's error and no response.  Attempt j + 1 is
\* preceded by a wait of 2^j seconds; nothing is waited before the first
\* attempt or after the last.
C3_StopsAtFirstBelow500 ==
    /\ (pc \in ReqPcs \cup RetPcs)
         => /\ Len(sleeps) = (IF outs = <<>> THEN 0 ELSE Len(outs) - 1)
            /\ \A j \in 1..Len(sleeps) : sleeps[j] = 2 ^ j
            /\ Len(outs) <= 4
            /\ \A k \in 1..(Len(outs) - 1) : ~Below500(k)
    /\ Returned
         => IF Below500(Len(outs))
            THEN /\ ret.err = NoErr
                 /\ ret.resp = got
                 /\ ~ret.resp.nil
                 /\ ret.resp.status = outs[Len(outs)]
            ELSE /\ Len(outs) = 4
                 /\ outs[4] = 0 => (ret.err = TransportErr(cur.ep, 4) /\ ret.resp.nil)
    /\ (pc \in ReqPcs /\ outs # <<>>) => ~Below500(Len(outs))

C3_Witness == Returned /\ outs = <<0, 503, 404>> /\ ret.resp.status = 404

(***************************************************************************)
(* Properties of the authentication flow                                   *)
(***************************************************************************)
\* C4: with a token in the Token Store the flow issues no request: Login
\* succeeds after loading it, Authorize returns without resolving a client
\* id or calling the authorization endpoint, GetToken returns without calling
\* the token endpoint, and token.json is not rewritten.
C4_CachedTokenNoNetwork ==
    [][/\ (pc = "Login" /\ tokenFile = EncodeToken([AccessToken |-> "cached"]))
            => /\ pc' = "Authorize"
               /\ Token' = [AccessToken |-> "cached"]
               /\ requests' = <<>>
               /\ UNCHANGED <<ClientID, fileVars, errVars>>
       /\ (pc \in {"Authorize", "GetToken"} /\ Token # NilToken)
            => /\ pc' = (IF pc = "Authorize" THEN "GetToken" ELSE "GetGenres")
               /\ requests' = <<>>
               /\ writes' = 0
               /\ UNCHANGED <<Token, ClientID, tokenFile, errVars>>]_vars

C4_Witness ==
    /\ pc = "GetGenres"
    /\ Token = [AccessToken |-> "cached"]
    /\ requests = <<>>
    /\ writes = 0

\* token.json is still what it was when the program started
FileUntouched == writes = 0

\* C5 as stated: an absent token file leads to the login request; a token
\* file that cannot be read or decoded ends the flow in an error without a
\* login request.
C5_BadTokenFileIsFatal ==
    (pc # "Login" /\ FileUntouched)
        => /\ tokenFile.kind = "absent"
                => (requests # <<>> /\ requests[1].ep = "login")
           /\ tokenFile.kind \in {"unreadable", "malformed"}
                => (pc = "Fatal" /\ requests = <<>>)

\* C5 as amended: an absent, an unreadable and an undecodable token file are
\* treated alike: Login drops the load error, keeps the token unset and goes
\* on to the login request; the load error never ends the flow.
C5_LoadErrorProceedsToLogin ==
    (pc # "Login" /\ FileUntouched
        /\ tokenFile.kind \in {"absent", "unreadable", "malformed"})
        => /\ requests # <<>>
           /\ requests[1].ep = "login"
           /\ pc \in {"LoginReq", "LoginRet"} => Token = NilToken
           /\ opErr \notin {LoadErr("notexist"), LoadErr("permission"), LoadErr("decode")}

C5_Witness ==
    /\ pc = "LoginReq"
    /\ tokenFile = Malformed
    /\ FileUntouched
    /\ requests = <<LoginReq(Username, Password)>>

(***************************************************************************)
(* Properties of GetTop100                                                 *)
(***************************************************************************)
\* the response doRequest returned can be decoded as a JSON object
Decodable == ~ret.resp.closed /\ ret.resp.body.kind = "json"

\* the list under key in the returned body (none: the empty list)
Listed(key) ==
    IF key \in DOMAIN ret.resp.body.obj THEN ret.resp.body.obj[key] ELSE <<>>

\* C6: a 200 from the top 100 endpoint makes its result list the result and
\* no search request is issued; any other response from it (404, 302, a 503
\* left after the retries) is followed by a search request for
\* genre_id:<genreID> of type tracks, and a 200 from that makes its track list
\* the result; after a transport error of the top 100 request no search
\* request is issued.
C6_FallbackOnNon200 ==
    [][/\ (pc = "TopRet" /\ ret.err = NoErr /\ ret.resp.status = 200)
            => /\ requests' = requests
               /\ pc' = (IF Decodable THEN "Done" ELSE "Fatal")
               /\ Decodable => tracks' = Listed("results")
       /\ (pc = "TopRet" /\ ret.err = NoErr /\ ret.resp.status # 200)
            => /\ pc' = "SearchReq"
               /\ requests' = Append(requests,
                     [ep |-> "search", arg |-> [genre_id |-> selected, type |-> "tracks"]])
               /\ requests[Len(requests)] = [ep |-> "top100", arg |-> selected]
               /\ cur' = requests'[Len(requests')]
       /\ (pc = "SearchRet" /\ ret.err = NoErr /\ ret.resp.status = 200 /\ Decodable)
            => /\ pc' = "Done"
               /\ tracks' = Listed("tracks")
       /\ (pc = "TopRet" /\ ret.err # NoErr)
            => /\ pc' = "Fatal"
               /\ requests' = requests]_vars

C6_Witness ==
    /\ pc = "Done"
    /\ cur = [ep |-> "search", arg |-> [genre_id |-> 1, type |-> "tracks"]]
    /\ ret.resp.body = JsonObj([results |-> <<"t1">>, tracks |-> <<"t2", "t1">>])
    /\ tracks = <<"t2", "t1">>

\* C7: when the top 100 endpoint answered with a status other than 200 and
\* the search request fails too (status other than 200, or transport error),
\* GetTop100 returns the error of the search request and no track list.
C7_FallbackErrorSurfaced ==
    [][(pc = "SearchRet" /\ (ret.err # NoErr \/ ret.resp.status # 200))
          => /\ pc' = "Fatal"
             /\ failedOp' = "GetTop100"
             /\ tracks' = <<>>
             /\ IF ret.err # NoErr
                THEN opErr' = TransportErr("search", 4)
                ELSE /\ opErr'.kind = "failed to get top 100 (fallback)"
                     /\ opErr'.body = (IF ret.resp.closed THEN NoBody ELSE ret.resp.body)]_vars

C7_Witness ==
    /\ pc = "Fatal"
    /\ failedOp = "GetTop100"
    /\ cur.ep = "search"
    /\ outs = <<404>>
    /\ opErr.kind = "failed to get top 100 (fallback)"
    /\ tracks = <<>>

(***************************************************************************)
(* Properties of FetchClientID                                             *)
(***************************************************************************)
\* the script requests issued so far, in order
ScriptsFetched == SelectSeq(requests, LAMBDA r : r.ep = "script")

\* the references of a page in the order they occur in it
RefsInOrder(page) == SelectSeq(page, LAMBDA l : l # <<>>)

\* the script doRequest returned can be read and holds an assignment
HoldsClientID ==
    /\ ret.err = NoErr
    /\ ~ret.resp.closed
    /\ ret.resp.body.kind = "js"
    /\ \E k \in 1..Len(ret.resp.body.lines) : ret.resp.body.lines[k].assign

\* the value of the first assignment of the script doRequest returned
FirstClientID ==
    LET ls == ret.resp.body.lines
        k == CHOOSE n \in 1..Len(ls) : ls[n].assign /\ \A m \in 1..(n - 1) : ~ls[m].assign
    IN ls[k].value

\* the page doRequest returned can be read
PageRead == ret.err = NoErr /\ ~ret.resp.closed

\* the references of the page doRequest returned
PageRefs == IF ret.resp.body.kind = "html" THEN RefsInOrder(ret.resp.body.lines) ELSE <<>>

\* C8: FetchClientID fetches the candidates in the order of the page, sets
\* the client id to the first value of the first candidate holding an
\* assignment, and fetches no candidate after that one.
C8_FirstCandidateWins ==
    /\ [](pc \in {"ScriptReq", "ScriptRet", "AuthorizeReq", "AuthorizeRet"}
            => ScriptsFetched = [k \in 1..ci |-> [ep |-> "script", arg |-> cands[k]]])
    /\ [][/\ (pc = "DocsRet" /\ PageRead /\ PageRefs # <<>>)
               => (pc' = "ScriptReq" /\ cands' = PageRefs /\ ci' = 1)
          /\ (pc = "ScriptRet" /\ HoldsClientID)
               => /\ ClientID' = FirstClientID
                  /\ pc' = "AuthorizeReq"
                  /\ UNCHANGED <<cands, ci>>
                  /\ requests' = Append(requests, [ep |-> "authorize", arg |-> FirstClientID])
          /\ (pc = "ScriptRet" /\ ~HoldsClientID /\ ci < Len(cands))
               => (pc' = "ScriptReq" /\ cands' = cands /\ ci' = ci + 1)
          /\ (pc \in {"AuthorizeReq", "AuthorizeRet"} \/ ClientID # "")
               => ScriptsFetched' = ScriptsFetched]_vars

C8_Witness ==
    /\ pc = "AuthorizeReq"
    /\ cands = <<<<"b">>, <<"a">>>>
    /\ ci = 1
    /\ ClientID = "id1"
    /\ ScriptsFetched = <<[ep |-> "script", arg |-> <<"b">>]>>

\* C9: when the page holds no script reference, or the last candidate is
\* fetched and holds no assignment either, FetchClientID fails, the client id
\* stays unset and Authorize returns that failure; no request goes to the
\* authorization endpoint.
C9_NoClientIDStopsAuthorize ==
    [][(\/ (pc = "DocsRet" /\ PageRead /\ PageRefs = <<>>)
        \/ (pc = "ScriptRet" /\ ~HoldsClientID /\ ci = Len(cands)))
          => /\ pc' = "Fatal"
             /\ failedOp' = "Authorize"
             /\ opErr' = [kind |-> "could not fetch API_CLIENT_ID"]
             /\ ClientID' = ""
             /\ CheckRedirect' = "default"
             /\ \A k \in 1..Len(requests') : requests'[k].ep # "authorize"]_vars

C9_Witness ==
    /\ pc = "Fatal"
    /\ failedOp = "Authorize"
    /\ opErr = [kind |-> "could not fetch API_CLIENT_ID"]
    /\ Len(ScriptsFetched) = 2
    /\ ClientID = ""

(***************************************************************************)
(* Transport errors                                                        *)
(***************************************************************************)
\* the step of Run a request belongs to
StepOf(p) ==
    CASE p = "LoginRet" -> "Login"
      [] p \in {"DocsRet", "ScriptRet", "AuthorizeRet"} -> "Authorize"
      [] p = "TokenRet" -> "GetToken"
      [] p = "GenresRet" -> "GetGenres"
      [] OTHER -> "GetTop100"

\* C10 as stated: whenever a request of an operation ends in a transport
\* error, the operation returns that error and makes no further request.
C10_TransportErrorAlwaysFatal ==
    [][(Returned /\ ret.err # NoErr)
          => /\ pc' = "Fatal"
             /\ opErr' = ret.err
             /\ requests' = requests]_vars

\* C10 as amended: a transport error of the documentation-page request or of
\* a request of Login, Authorize, GetToken, GetGenres, GetTop100 is returned
\* as it is and ends the operation; a transport error of a script request of
\* FetchClientID is dropped: the next candidate is fetched, and after the
\* last candidate FetchClientID fails with its own error.
C10_TransportErrorFatalButScripts ==
    [][/\ (Returned /\ pc # "ScriptRet" /\ ret.err # NoErr)
            => /\ pc' = "Fatal"
               /\ failedOp' = StepOf(pc)
               /\ opErr' = ret.err
               /\ opErr' = TransportErr(cur.ep, 4)
               /\ requests' = requests
       /\ (pc = "ScriptRet" /\ ret.err # NoErr)
            => IF ci < Len(cands)
               THEN /\ pc' = "ScriptReq"
                    /\ requests' = Append(requests, [ep |-> "script", arg |-> cands[ci + 1]])
                    /\ UNCHANGED errVars
               ELSE /\ pc' = "Fatal"
                    /\ opErr' = [kind |-> "could not fetch API_CLIENT_ID"]
                    /\ requests' = requests]_vars

C10_Witness ==
    /\ pc = "Fatal"
    /\ failedOp = "GetTop100"
    /\ opErr = TransportErr("search", 4)
    /\ ret.err = opErr

(***************************************************************************)
(* Properties of Login, Authorize, GetToken                                *)
(***************************************************************************)
\* C11: Login without a cached token succeeds exactly when the login
\* response decodes to an object holding the key username, whatever its
\* status; a decoded response without that key makes Login fail, also with
\* status 200, and the error holds the decoded response.
C11_LoginNeedsUsername ==
    [][pc = "LoginRet"
         => IF ret.err = NoErr /\ Decodable /\ "username" \in DOMAIN ret.resp.body.obj
            THEN /\ pc' = "Authorize"
                 /\ UNCHANGED errVars
            ELSE /\ pc' = "Fatal"
                 /\ failedOp' = "Login"
                 /\ (ret.err = NoErr /\ Decodable)
                      => opErr' = [kind |-> "login failed", res |-> ret.resp.body.obj]]_vars

C11_Witness ==
    /\ pc = "Fatal"
    /\ failedOp = "Login"
    /\ ret.resp.status = 200
    /\ ret.resp.body = JsonObj([detail |-> "bad"])
    /\ opErr = [kind |-> "login failed", res |-> [detail |-> "bad"]]

\* C12: Authorize without a cached token returns a code only from a response
\* whose Location header holds a non-empty code; a response without a
\* Location header makes it fail with an error holding the body of that
\* response, a Location without a code makes it fail with an error holding
\* the Location, and neither returns a code.
C12_AuthorizeFailuresReported ==
    [][(pc = "AuthorizeRet" /\ ret.err = NoErr)
         => LET loc == ret.resp.loc
            IN /\ pc' = "GetToken"
                    => (loc.present /\ loc.code # "" /\ code' = loc.code)
               /\ ~loc.present
                    => /\ pc' = "Fatal"
                       /\ failedOp' = "Authorize"
                       /\ opErr' = [kind |-> "no location header", body |-> got.body]
                       /\ code' = ""
               /\ (loc.present /\ loc.parses /\ loc.code = "")
                    => /\ pc' = "Fatal"
                       /\ failedOp' = "Authorize"
                       /\ opErr' = [kind |-> "no code in location", location |-> loc]
                       /\ code' = ""]_vars

\* C13: whenever the token endpoint's answer is not a 200 (a 5xx left after
\* the retries included), GetToken fails with an error holding the body of
\* that response, Token stays nil and token.json is not written.
C13_TokenFailureCarriesBody ==
    [][(pc = "TokenRet" /\ ret.err = NoErr /\ ret.resp.status # 200)
         => /\ pc' = "Fatal"
            /\ failedOp' = "GetToken"
            /\ opErr' = [kind |-> "failed to get token", body |-> got.body]
            /\ Token' = NilToken
            /\ UNCHANGED fileVars]_vars

\* C14: whenever GetToken returns success after a token exchange, token.json
\* has been created anew and holds exactly the token the client now holds,
\* whatever the file held before.
C14_TokenPersistedOnSuccess ==
    [][(pc = "TokenRet" /\ pc' = "GetGenres")
         => /\ Token' # NilToken
            /\ Token' = DecodeToken(ret.resp.body).token
            /\ tokenFile' = EncodeToken(Token')
            /\ LoadToken(tokenFile') = [err |-> NoErr, token |-> Token']
            /\ writes' = writes + 1]_vars

C14_Witness ==
    /\ pc = "GetGenres"
    /\ cur = NoReq
    /\ Token = [AccessToken |-> "fresh"]
    /\ tokenFile = EncodeToken([AccessToken |-> "fresh"])
    /\ writes = 1

\* GetToken returned the error of SaveToken: the exchange succeeded and the
\* token could not be written
SaveFailed == failedOp = "GetToken" /\ opErr.kind \in {"create", "write"}

\* C15: when the token exchange succeeds and token.json cannot be written,
\* GetToken returns the error, the client holds the fresh token, and the run
\* is not over: it can go on to the catalog queries.
C15_RunContinuesAfterSaveFailure ==
    SaveFailed => (Token # NilToken /\ pc # "Fatal")

(***************************************************************************)
(* Properties of Run                                                       *)
(***************************************************************************)
\* the position of a step in Run
StepNo(op) ==
    CASE op = "Login" -> 1
      [] op = "Authorize" -> 2
      [] op = "GetToken" -> 3
      [] op = "GetGenres" -> 4
      [] op = "Select" -> 5
      [] OTHER -> 6

\* the position in Run of the step that issues requests to ep
EpStepNo(ep) ==
    CASE ep = "login" -> 1
      [] ep \in {"docs", "script", "authorize"} -> 2
      [] ep = "token" -> 3
      [] ep = "genres" -> 4
      [] OTHER -> 6

\* C16: once a step of Run has failed the run is over: every request issued
\* belongs to the failed step or to a step before it, the failure itself
\* issues no request, and nothing happens afterwards (no later step runs, the
\* failed step is not run again).
C16_FailureAbortsRun ==
    /\ [](failedOp # ""
            => /\ pc = "Fatal"
               /\ \A k \in 1..Len(requests) :
                    EpStepNo(requests[k].ep) <= StepNo(failedOp))
    /\ [][/\ failedOp' # "" => requests' = requests
          /\ failedOp # "" => UNCHANGED vars]_vars

C16_Witness ==
    /\ pc = "Fatal"
    /\ failedOp = "GetToken"
    /\ Len(requests) = 5
    /\ requests[5].ep = "token"

\* Login returned without a login request: it took the token of token.json
CachedRun == pc # "Login" /\ (requests = <<>> \/ requests[1].ep # "login")

\* C17: in a run on a cached token every request is a catalog request
\* carrying that token, token.json is never written and still holds the
\* token; when the service turns the token down (a status other than 200 for
\* the genre query, or for the top 100 and the search query) the query's
\* error ends the run with the token and the file as they were, and no
\* request follows.
C17_NoReauthentication ==
    /\ [](CachedRun
            => /\ Token # NilToken
               /\ LoadToken(tokenFile) = [err |-> NoErr, token |-> Token]
               /\ FileUntouched
               /\ \A k \in 1..Len(requests) :
                    /\ requests[k].ep \in {"genres", "top100", "search"}
                    /\ requests[k].ep = "genres" => requests[k].arg = Token.AccessToken)
    /\ [][(CachedRun /\ pc \in {"GenresRet", "SearchRet"} /\ ret.err = NoErr
              /\ ret.resp.status # 200)
            => /\ pc' = "Fatal"
               /\ failedOp' = StepOf(pc)
               /\ opErr'.kind = (IF pc = "GenresRet" THEN "failed to get genres"
                                 ELSE "failed to get top 100 (fallback)")
               /\ requests' = requests
               /\ UNCHANGED <<Token, fileVars>>]_vars

C17_Witness ==
    /\ pc = "Fatal"
    /\ failedOp = "GetGenres"
    /\ Token = [AccessToken |-> "cached"]
    /\ tokenFile = EncodeToken([AccessToken |-> "cached"])
    /\ requests = <<[ep |-> "genres", arg |-> "cached"]>>
    /\ outs = <<404>>

(***************************************************************************)
(* Properties of GetGenres                                                 *)
(***************************************************************************)
\* C18: GetGenres issues no request besides the one to the genre listing; a
\* 200 makes the decoded list, in the order of the response, its result; any
\* other status (a 5xx left after the retries included) makes it fail with
\* an error holding the body of the response, and no genres.
C18_GenresNon200CarriesBody ==
    [][(pc = "GenresRet" /\ ret.err = NoErr)
         => /\ requests' = requests
            /\ cur.ep = "genres"
            /\ (ret.resp.status = 200 /\ Decodable)
                 => (pc' = "Select" /\ genres' = Listed("results"))
            /\ ret.resp.status # 200
                 => /\ pc' = "Fatal"
                    /\ failedOp' = "GetGenres"
                    /\ opErr' = [kind |-> "failed to get genres", body |-> got.body]
                    /\ genres' = <<>>]_vars

(***************************************************************************)
(* Properties of the session                                               *)
(***************************************************************************)
\* C19: the client has one cookie jar from NewClient on: every attempt of
\* every request, the retries included, is sent with the cookies the jar
\* holds at that moment, the cookies of the response Login got are in the
\* jar, and no step takes a cookie out of the jar; so every attempt of the
\* authorization request carries the cookies the login response set.
C19_OneSessionForAllRequests ==
    /\ [](/\ pc = "LoginRet" => got.cookies \subseteq Jar
          /\ \A k \in 1..Len(sent) : sent[k].cookies \subseteq Jar
          /\ cur.ep \notin {"none", "login"}
               => \A k \in 1..Len(sent) : sent[k].cookies = Jar)
    /\ [][/\ Jar \subseteq Jar'
          /\ Len(sent') = Len(sent) + 1 => sent' = Append(sent, [cookies |-> Jar])
          /\ Len(sent') # Len(sent) + 1 => (sent' \in {sent, <<>>} /\ Jar' = Jar)]_vars

C19_Witness ==
    /\ pc = "AuthorizeRet"
    /\ Jar = {"sessionid"}
    /\ outs = <<503, 302>>
    /\ sent = <<[cookies |-> {"sessionid"}], [cookies |-> {"sessionid"}]>>

(***************************************************************************)
(* Properties of the credentials                                           *)
(***************************************************************************)
Credentials == {Username, Password}

\* the strings a request holds in its URL, its headers and its body
Carried(req) ==
    CASE req.ep = "login" -> {req.body.username, req.body.password}
      [] req.ep = "script" -> {req.arg[k] : k \in DOMAIN req.arg}
      [] req.ep \in {"authorize", "genres"} -> {req.arg}
      [] req.ep = "token" -> {req.arg[1], req.arg[2]}
      [] OTHER -> {}

\* C20: of all requests only the login request holds the user name and the
\* password, and it holds them in its body only; the cookies sent along hold
\* neither; in a run on a cached token no request holds them.
C20_CredentialsOnlyInLoginBody ==
    /\ \A k \in 1..Len(requests) :
         /\ requests[k].ep = "login"
              => /\ requests[k].body = [username |-> Username, password |-> Password]
                 /\ requests[k].arg = <<>>
         /\ requests[k].ep # "login" => Carried(requests[k]) \cap Credentials = {}
    /\ \A k \in 1..Len(sent) : sent[k].cookies \cap Credentials = {}
    /\ CachedRun => \A k \in 1..Len(requests) : Carried(requests[k]) \cap Credentials = {}

C20_Witness ==
    /\ pc = "SearchReq"
    /\ Len(requests) = 8
    /\ requests[1] = LoginReq(Username, Password)
    /\ requests[5].ep = "token"
    /\ sent = <<[cookies |-> {"sessionid"}]>>

(***************************************************************************)
(* Properties of the genre selection                                       *)
(***************************************************************************)
\* the positions of the listing whose name is the query up to case
Matching == {k \in 1..Len(genres) : Fold(genres[k].Name) = Fold(genreName)}

\* C21: the selection takes the first genre of the listing whose name equals
\* the query up to case, and the top 100 request is for its ID; when no
\* genre matches, the run ends there and no top 100 request is issued.
C21_FirstMatchIgnoringCase ==
    [][pc = "Select"
         => IF Matching # {}
            THEN LET k == CHOOSE m \in Matching : \A n \in Matching : m <= n
                 IN /\ selected' = genres[k].ID
                    /\ pc' = "TopReq"
                    /\ requests' = Append(requests, [ep |-> "top100", arg |-> genres[k].ID])
            ELSE /\ pc' = "Fatal"
                 /\ failedOp' = "Select"
                 /\ selected' = 0
                 /\ requests' = requests]_vars

C21_Witness ==
    /\ pc = "TopReq"
    /\ genreName = "techno"
    /\ genres = <<Genre(3, "TECHNO"), Genre(1, "Techno")>>
    /\ selected = 3
    /\ cur = [ep |-> "top100", arg |-> 3]

(***************************************************************************)
(* Properties of the responses and requests of doRequest                   *)
(***************************************************************************)
\* C22: a response doRequest returns with a nil error is the response as it
\* was received, its body open and unread, also when it is the response of
\* the last attempt and its status is 500 or more.
C22_ReturnedBodyOpen ==
    (Returned /\ ret.err = NoErr)
        => /\ ~ret.resp.nil
           /\ ~ret.resp.closed
           /\ ret.resp = got

\* C23: every attempt of a call transmits the request as it was built: each
\* retry of the login request and of the token request carries the whole
\* body again.
C23_RetriesResendBody ==
    \A k \in 1..Len(bodies) : bodies[k] = ReqBody(cur)

(***************************************************************************)
(* Properties of the client id, the redirect policy and the token          *)
(***************************************************************************)
\* C24: when FetchClientID has returned success (Authorize has gone on to
\* its request) the client id is not the empty string, and no authorization
\* request carries an empty client_id.
C24_ClientIDNonEmpty ==
    /\ pc \in {"AuthorizeReq", "AuthorizeRet"} => ClientID # ""
    /\ \A k \in 1..Len(requests) :
         requests[k].ep = "authorize" => requests[k].arg # ""

\* C25: redirects are turned off exactly from the moment Authorize builds
\* the authorization request until Authorize returns: every attempt of the
\* authorization request is made with redirects off, every attempt of any
\* other request (documentation page and scripts included) with the default
\* policy, and after Authorize has returned, on whatever path, the policy is
\* the default.
C25_RedirectPolicyFramed ==
    /\ CheckRedirect = "nofollow" <=> pc \in {"AuthorizeReq", "AuthorizeRet"}
    /\ pc \in ReqPcs => (CheckRedirect = "nofollow" <=> cur.ep = "authorize")
    /\ pc \in {"GetToken", "Fatal", "Done"} => CheckRedirect = "default"

C25_Witness ==
    /\ pc = "Fatal"
    /\ failedOp = "Authorize"
    /\ opErr.kind = "no code in location"
    /\ outs = <<503, 302>>
    /\ cur.ep = "authorize"
    /\ CheckRedirect = "default"

\* Run is past GetToken
PastGetToken ==
    pc \in {"GetGenres", "GenresReq", "GenresRet", "Select", "TopReq", "TopRet",
            "SearchReq", "SearchRet", "Done"}

\* C26: Run gets past GetToken only with a token in the client, and every
\* catalog request was issued with the client holding a token (the genre
\* request carries its access token).
C26_CatalogNeedsToken ==
    /\ PastGetToken => Token # NilToken
    /\ \A k \in 1..Len(requests) :
         requests[k].ep \in {"genres", "top100", "search"}
            => /\ Token # NilToken
               /\ requests[k].ep = "genres" => requests[k].arg = Token.AccessToken

C26_Witness ==
    /\ pc = "GenresReq"
    /\ Token = [AccessToken |-> "fresh"]
    /\ Len(requests) = 6
    /\ requests[5].ep = "token"
    /\ requests[6] = [ep |-> "genres", arg |-> "fresh"]

\* C27: once the flow is authenticated (GetToken has returned success, on a
\* token of token.json or on one from the exchange) the access token of the
\* client's token is not the empty string.
C27_AccessTokenNonEmpty ==
    PastGetToken => (Token # NilToken /\ Token.AccessToken # "")

====
